---- MODULE Spec2Model ----
(***************************************************************************)
(* Reconciliation of Cloudflare A-records with the health of Remnawave     *)
(* nodes: MonitoringService (monitoring_service.py), DNSManager            *)
(* (cloudflare_dns/dns_manager.py), CloudflareClient                       *)
(* (cloudflare_dns/client.py), NodeMonitor (remnawave/monitor.py) and the  *)
(* monitoring loop of __main__.py.                                         *)
(*                                                                         *)
(* One step of the model is one awaited call of the program (a provider    *)
(* call, the health snapshot, a sleep) together with the synchronous code  *)
(* that follows it up to the next awaited call.                            *)
(***************************************************************************)
EXTENDS Integers, Sequences, FiniteSets, TLC

VARIABLES
    pc,         \* the await the single task is suspended at
    di,         \* index into config.domains of the domain being processed
    zi,         \* index into that domain's zones of the zone being processed
    cache,      \* MonitoringService._zone_id_cache: domain -> zone id
    healthy,    \* healthy_addresses of the running cycle
    todo,       \* the create/delete calls sync_dns_records has still to issue
    records,    \* provider side: full domain -> A-records, in listing order
    log,        \* the provider and health calls of the running pass, in order
    faults,     \* how many calls of the monitoring loop have failed so far
    prev,       \* how the previous cycle ended and the snapshot it worked from
    interrupted,\* the await a shutdown signal interrupted, once one arrived
    exit_code   \* the exit status of the process, once it has exited

vars == <<pc, di, zi, cache, healthy, todo, records, log, faults,
          prev, interrupted, exit_code>>

(***************************************************************************)
(* Bounds.                                                                 *)
(***************************************************************************)
\* the number of A-records the provider holds when the program starts
MaxRecords == 2
\* the number of provider and health-source calls that fail once the loop runs
\* (the startup pass makes at most one call per domain and zone, each may fail)
MaxFaults == 1

(***************************************************************************)
(* Configuration (config.yml as Config.domains returns it): two domains,   *)
(* the first with two zones; ips maps an address to its weight, in the     *)
(* order of the file.                                                      *)
(***************************************************************************)
domains ==
    << [domain |-> "d1",
        zones  |-> << [name |-> "z1", ips |-> << <<"a", 2>>, <<"b", 1>> >>],
                      [name |-> "z2", ips |-> << <<"a", 1>> >>] >>],
       [domain |-> "d2",
        zones  |-> << [name |-> "z3", ips |-> << <<"b", 2>> >>] >>] >>

\* the addresses the provider may hold records for
Addresses == {"a", "b"}
\* what the health source may report: (address, is_healthy); "x" is a node
\* no zone configures
NodeUniverse == {"a", "b", "x"} \X BOOLEAN

\* the zone id the provider holds for a domain name
ProviderZoneId(domain) == <<"zone", domain>>

\* f"{zone_name}.{domain}"
full_domain(zone_name, domain) == <<zone_name, domain>>

DomainAt(d) == domains[d].domain
ZoneAt(d, z) == domains[d].zones[z]
FullAt(d, z) == full_domain(ZoneAt(d, z).name, DomainAt(d))

Positions == UNION {{<<d, z>> : z \in 1..Len(domains[d].zones)} : d \in 1..Len(domains)}
FullDomains == {FullAt(p[1], p[2]) : p \in Positions}
PositionOf(fd) == CHOOSE p \in Positions : FullAt(p[1], p[2]) = fd

(***************************************************************************)
(* Helpers on sequences.                                                   *)
(***************************************************************************)
RECURSIVE Flatten(_)
Flatten(ss) == IF ss = <<>> THEN <<>> ELSE Head(ss) \o Flatten(Tail(ss))

Range(s) == {s[i] : i \in 1..Len(s)}

SeqsUpTo(S, n) == UNION {[1..k -> S] : k \in 0..n}

\* configured_ips.keys() and configured_ips[ip]
Keys(ips) == {ips[i][1] : i \in 1..Len(ips)}
Weight(ips, ip) == ips[CHOOSE i \in 1..Len(ips) : ips[i][1] = ip][2]

(***************************************************************************)
(* The provider's records.  A record is [id, content]; its name is the     *)
(* full domain it is stored under.  Ids are opaque and unique: the pair of *)
(* the name and a serial number not in use under that name.                *)
(***************************************************************************)
NoId == <<>>
NoName == <<"", "">>

FreshId(recs, fd) ==
    <<fd, CHOOSE n \in 1..(Len(recs) + 1) :
              /\ \A i \in 1..Len(recs) : recs[i].id # <<fd, n>>
              /\ \A m \in 1..(n - 1) : \E i \in 1..Len(recs) : recs[i].id = <<fd, m>> >>

\* the records a fresh account may hold: any addresses, ids in listing order
InitialRecords(fd, ips) == [i \in 1..Len(ips) |-> [id |-> <<fd, i>>, content |-> ips[i]]]

TotalRecords(store) ==
    LET RECURSIVE Sum(_)
        Sum(S) == IF S = {} THEN 0
                  ELSE LET fd == CHOOSE x \in S : TRUE
                       IN  Len(store[fd]) + Sum(S \ {fd})
    IN  Sum(DOMAIN store)

\* cf.dns.records.create: the new record is listed after the existing ones
ProviderCreate(store, fd, ip) ==
    [store EXCEPT ![fd] = Append(@, [id |-> FreshId(@, fd), content |-> ip])]

\* cf.dns.records.delete(dns_record_id, zone_id)
ProviderDelete(store, zone_id, record_id) ==
    [fd \in DOMAIN store |->
        IF ProviderZoneId(fd[2]) = zone_id
        THEN SelectSeq(store[fd], LAMBDA r : r.id # record_id)
        ELSE store[fd]]

\* a faulty variant: the listing is not filtered by name and returns the
\* records of every name of the zone
ProviderList_WholeZone(store, zone_id, name) ==
    LET d == CHOOSE e \in 1..Len(domains) : DomainAt(e) = name[2]
    IN  IF ProviderZoneId(name[2]) = zone_id
        THEN Flatten([z \in 1..Len(domains[d].zones) |-> store[FullAt(d, z)]])
        ELSE <<>>

\* cf.dns.records.list(zone_id, type="A", name=name)
ProviderList(store, zone_id, name) ==
    IF name \in DOMAIN store /\ ProviderZoneId(name[2]) = zone_id THEN store[name] ELSE <<>>

(***************************************************************************)
(* DNSManager.sync_dns_records: the create and delete calls one sync       *)
(* issues, in the order it issues them.                                    *)
(***************************************************************************)
CreateCall(ip) == [op |-> "create", ip |-> ip, id |-> NoId]
DeleteCall(ip, record) == [op |-> "delete", ip |-> ip, id |-> record.id]

\* existing_by_ip[ip] and existing_counts[ip]
existing_by_ip(existing_records, ip) == SelectSeq(existing_records, LAMBDA r : r.content = ip)
existing_counts(existing_records, ip) == Len(existing_by_ip(existing_records, ip))

\* the keys of existing_by_ip in insertion order
RECURSIVE listed_ips(_)
listed_ips(existing_records) ==
    IF existing_records = <<>> THEN <<>>
    ELSE LET n    == Len(existing_records)
             rest == listed_ips(SubSeq(existing_records, 1, n - 1))
             ip   == existing_records[n].content
         IN  IF ip \in Range(rest) THEN rest ELSE Append(rest, ip)

\* a faulty variant: the missing records are not counted against the existing ones
HealthyCalls_NoCount(ip, desired_weight, group) ==
    LET current_count == Len(group)
    IN  IF current_count < desired_weight
        THEN [i \in 1..desired_weight |-> CreateCall(ip)]
        ELSE IF current_count > desired_weight
        THEN [i \in 1..(current_count - desired_weight) |-> DeleteCall(ip, group[i])]
        ELSE <<>>

\* a faulty variant: an over-represented ip loses all its records
HealthyCalls_TrimAll(ip, desired_weight, group) ==
    LET current_count == Len(group)
    IN  IF current_count < desired_weight
        THEN [i \in 1..(desired_weight - current_count) |-> CreateCall(ip)]
        ELSE IF current_count > desired_weight
        THEN [i \in 1..current_count |-> DeleteCall(ip, group[i])]
        ELSE <<>>

\* a faulty variant: trimming an over-represented ip removes one record too many
HealthyCalls_OffByOne(ip, desired_weight, group) ==
    LET current_count == Len(group)
    IN  IF current_count < desired_weight
        THEN [i \in 1..(desired_weight - current_count) |-> CreateCall(ip)]
        ELSE IF current_count > desired_weight
        THEN [i \in 1..(current_count - desired_weight + 1) |-> DeleteCall(ip, group[i])]
        ELSE <<>>

\* a faulty variant: trimming removes the last records of the ip, not the first
HealthyCalls_TrimLast(ip, desired_weight, group) ==
    LET current_count == Len(group)
    IN  IF current_count < desired_weight
        THEN [i \in 1..(desired_weight - current_count) |-> CreateCall(ip)]
        ELSE IF current_count > desired_weight
        THEN [i \in 1..(current_count - desired_weight) |->
                 DeleteCall(ip, group[desired_weight + i])]
        ELSE <<>>

\* lines 58-70: a healthy configured ip
HealthyCalls(ip, desired_weight, group) ==
    LET current_count == Len(group)
    IN  IF current_count < desired_weight
        THEN [i \in 1..(desired_weight - current_count) |-> CreateCall(ip)]
        ELSE IF current_count > desired_weight
        THEN [i \in 1..(current_count - desired_weight) |-> DeleteCall(ip, group[i])]
        ELSE <<>>

\* a faulty variant: an unhealthy ip keeps its first record
UnhealthyCalls_KeepOne(ip, group) == [i \in 1..(Len(group) - 1) |-> DeleteCall(ip, group[i + 1])]

\* lines 71-75: a configured ip that is not healthy
UnhealthyCalls(ip, group) == [i \in 1..Len(group) |-> DeleteCall(ip, group[i])]

\* lines 55-75: the loop over configured_ips.items()
ConfiguredCalls(configured_ips, healthy_ips, existing_records) ==
    Flatten([k \in 1..Len(configured_ips) |->
        LET ip    == configured_ips[k][1]
            group == existing_by_ip(existing_records, ip)
        IN  IF ip \in healthy_ips
            THEN HealthyCalls(ip, configured_ips[k][2], group)
            ELSE UnhealthyCalls(ip, group)])

\* a faulty variant: records of a healthy ip are kept although the zone does not configure it
UnconfiguredCalls_SkipHealthy(configured_ips, existing_records) ==
    LET ips == listed_ips(existing_records)
    IN  Flatten([k \in 1..Len(ips) |->
            IF ips[k] \notin Keys(configured_ips) /\ ips[k] \notin healthy
            THEN LET group == existing_by_ip(existing_records, ips[k])
                 IN  [i \in 1..Len(group) |-> DeleteCall(ips[k], group[i])]
            ELSE <<>>])

\* lines 77-82: the loop over existing_by_ip.items()
UnconfiguredCalls(configured_ips, existing_records) ==
    LET ips == listed_ips(existing_records)
    IN  Flatten([k \in 1..Len(ips) |->
            IF ips[k] \notin Keys(configured_ips)
            THEN LET group == existing_by_ip(existing_records, ips[k])
                 IN  [i \in 1..Len(group) |-> DeleteCall(ips[k], group[i])]
            ELSE <<>>])

\* a faulty variant: a snapshot without any healthy node is not acted upon
sync_calls_UnlessNoneHealthy(configured_ips, healthy_ips, existing_records) ==
    IF healthy_ips = {} THEN <<>>
    ELSE ConfiguredCalls(configured_ips, healthy_ips, existing_records)
             \o UnconfiguredCalls(configured_ips, existing_records)

sync_calls(configured_ips, healthy_ips, existing_records) ==
    ConfiguredCalls(configured_ips, healthy_ips, existing_records)
        \o UnconfiguredCalls(configured_ips, existing_records)

(***************************************************************************)
(* MonitoringService.perform_health_check, lines 57-66.                    *)
(***************************************************************************)
\* _get_all_configured_ips
get_all_configured_ips == UNION {Keys(ZoneAt(p[1], p[2]).ips) : p \in Positions}

\* what the snapshot says: the addresses of the nodes check_all_nodes
\* returned with is_healthy true (monitor.py lines 31-47, 57)
reported_healthy(all_nodes) == {n[1] : n \in {m \in all_nodes : m[2]}}

\* a faulty variant: every configured node counts, healthy or not
healthy_addresses_Any(all_nodes) ==
    {n[1] : n \in {m \in all_nodes : m[1] \in get_all_configured_ips}}

healthy_addresses(all_nodes) ==
    {n[1] : n \in {m \in all_nodes : m[1] \in get_all_configured_ips /\ m[2]}}

(***************************************************************************)
(* The log of the running pass.                                            *)
(***************************************************************************)
Event(op, name, ip, id, ok, recs) ==
    [op |-> op, name |-> name, ip |-> ip, id |-> id, ok |-> ok, recs |-> recs,
     counted |-> ok, nodes |-> {}]

(***************************************************************************)
(* Control flow of _sync_all_zones and initialize_and_print_zones.         *)
(***************************************************************************)
At(p, d, z) == [pc |-> p, di |-> d, zi |-> z]

\* after the last domain perform_health_check returns and the loop sleeps
NextDomain(d) ==
    IF d < Len(domains) THEN At("resolve", d + 1, 1) ELSE At("sleep", 1, 1)

NextZone(d, z) ==
    IF z < Len(domains[d].zones) THEN At("list", d, z + 1) ELSE NextDomain(d)

\* after the last domain of the startup pass main() enters the loop
InitNextDomain(d) ==
    IF d < Len(domains) THEN At("init_resolve", d + 1, 1) ELSE At("check", 1, 1)

InitNextZone(d, z) ==
    IF z < Len(domains[d].zones) THEN At("init_list", d, z + 1) ELSE InitNextDomain(d)

Go(p) == pc' = p.pc /\ di' = p.di /\ zi' = p.zi

EmptyCache == [d \in {} |-> NoId]

\* zone_config.get("ips", []) of the zone with that full domain
ConfigOf(fd) == ZoneAt(PositionOf(fd)[1], PositionOf(fd)[2]).ips

\* no cycle has returned without an error right before this one
NoCycle == [clean |-> FALSE, healthy |-> {}]

\* class GracefulExit(SystemExit): code = 0
GracefulExit_code == 0
\* sys.exit(1) after "Fatal error"
FatalExit_code == 1

Init ==
    /\ pc = "init_resolve"
    /\ di = 1
    /\ zi = 1
    /\ cache = EmptyCache
    /\ healthy = {}
    /\ todo = <<>>
    /\ log = <<>>
    /\ faults = 0
    /\ prev = NoCycle
    /\ interrupted = <<>>
    /\ exit_code = <<>>
    /\ \E content \in [FullDomains -> SeqsUpTo(Addresses, MaxRecords)] :
          /\ TotalRecords(content) <= MaxRecords
          /\ records = [fd \in FullDomains |-> InitialRecords(fd, content[fd])]


\* a call to the provider or the health source returns, or fails
Succeeds == faults' = faults
Fails == faults < MaxFaults /\ faults' = faults + 1

(***************************************************************************)
(* MonitoringService._get_zone_id with CloudflareClient.get_zone_id_by_domain *)
(***************************************************************************)
\* a faulty variant: the cache is never consulted
zone_id_cached_Never(domain) == FALSE

\* lines 120-121: the domain is cached, the provider is not asked
zone_id_cached(domain) == domain \in DOMAIN cache

\* lines 123-127 when the provider returned a zone: the id is cached
zone_id_found(domain) ==
    /\ cache' = (domain :> ProviderZoneId(domain)) @@ cache
    /\ log' = Append(log, Event("resolve", <<"", domain>>, "", NoId, TRUE, <<>>))

\* a faulty variant: the failed resolution is remembered in the cache
zone_id_missing_Cached(domain) ==
    /\ cache' = (domain :> NoId) @@ cache
    /\ log' = Append(log, Event("resolve", <<"", domain>>, "", NoId, FALSE, <<>>))

\* lines 123-127 when the provider returned no zone or raised: None, not cached
zone_id_missing(domain) ==
    /\ cache' = cache
    /\ log' = Append(log, Event("resolve", <<"", domain>>, "", NoId, FALSE, <<>>))

(***************************************************************************)
(* MonitoringService.initialize_and_print_zones, called once by main().    *)
(* The cache is empty when it runs and the domains of the configuration    *)
(* differ, so that _get_zone_id asks the provider for each of them.        *)
(***************************************************************************)
InitResolveOk ==
    /\ pc = "init_resolve"
    /\ UNCHANGED faults
    /\ ~zone_id_cached(DomainAt(di))
    /\ zone_id_found(DomainAt(di))
    /\ Go(At("init_list", di, 1))
    /\ UNCHANGED <<healthy, todo, records>>
    /\ UNCHANGED <<prev, interrupted, exit_code>>

InitResolveFail ==
    /\ pc = "init_resolve"
    /\ UNCHANGED faults
    /\ ~zone_id_cached(DomainAt(di))
    /\ zone_id_missing(DomainAt(di))
    /\ Go(InitNextDomain(di))
    /\ UNCHANGED <<healthy, todo, records>>
    /\ UNCHANGED <<prev, interrupted, exit_code>>

\* a faulty variant: the startup pass removes the records it lists
InitListOk_Purge ==
    /\ pc = "init_list"
    /\ UNCHANGED faults
    /\ log' = Append(log, Event("list", FullAt(di, zi), "", NoId, TRUE,
                                ProviderList(records, cache[DomainAt(di)], FullAt(di, zi))))
    /\ Go(InitNextZone(di, zi))
    /\ records' = [records EXCEPT ![FullAt(di, zi)] = <<>>]
    /\ UNCHANGED <<cache, healthy, todo, prev, interrupted, exit_code>>

InitListOk ==
    /\ pc = "init_list"
    /\ UNCHANGED faults
    /\ log' = Append(log, Event("list", FullAt(di, zi), "", NoId, TRUE,
                                ProviderList(records, cache[DomainAt(di)], FullAt(di, zi))))
    /\ Go(InitNextZone(di, zi))
    /\ UNCHANGED <<cache, healthy, todo, records>>
    /\ UNCHANGED <<prev, interrupted, exit_code>>

\* get_dns_records re-raises; main() logs "Fatal error" and calls sys.exit(1)
InitListFail ==
    /\ pc = "init_list"
    /\ UNCHANGED faults
    /\ log' = Append(log, Event("list", FullAt(di, zi), "", NoId, FALSE, <<>>))
    /\ pc' = "fatal"
    /\ exit_code' = <<FatalExit_code>>
    /\ UNCHANGED <<di, zi, cache, healthy, todo, records, prev, interrupted>>

(***************************************************************************)
(* MonitoringService.perform_health_check.                                 *)
(***************************************************************************)
\* check_all_nodes returned: healthy_addresses is computed, _sync_all_zones starts
check_returns(all_nodes, seen) ==
    /\ pc = "check"
    /\ Succeeds
    /\ healthy' = healthy_addresses(all_nodes)
    /\ log' = <<[Event("snapshot", NoName, "", NoId, TRUE, <<>>) EXCEPT !.nodes = seen]>>
    /\ Go(At("resolve", 1, 1))
    /\ UNCHANGED <<cache, todo, records>>
    /\ UNCHANGED <<prev, interrupted, exit_code>>

CheckOk == \E all_nodes \in SUBSET NodeUniverse : check_returns(all_nodes, {})

\* the same step, with what the health source returned kept in the log
CheckObserved ==
    \E all_nodes \in SUBSET NodeUniverse : check_returns(all_nodes, reported_healthy(all_nodes))

\* a faulty variant: a failed snapshot is taken for an empty one and the zones are synced
CheckFailTo_Sync == At("resolve", 1, 1)

\* check_all_nodes raised: logged and re-raised at lines 93-95, caught by the loop
CheckFailTo == At("retry_sleep", 1, 1)

CheckFail ==
    /\ pc = "check"
    /\ Fails
    /\ healthy' = {}
    /\ log' = <<Event("snapshot", NoName, "", NoId, FALSE, <<>>)>>
    /\ Go(CheckFailTo)
    /\ UNCHANGED <<cache, todo, records>>
    /\ UNCHANGED <<prev, interrupted, exit_code>>

(***************************************************************************)
(* MonitoringService._sync_all_zones.                                      *)
(***************************************************************************)
ResolveCached ==
    /\ pc = "resolve"
    /\ UNCHANGED faults
    /\ zone_id_cached(DomainAt(di))
    /\ Go(At("list", di, 1))
    /\ UNCHANGED <<cache, healthy, todo, records, log>>
    /\ UNCHANGED <<prev, interrupted, exit_code>>

ResolveOk ==
    /\ pc = "resolve"
    /\ Succeeds
    /\ ~zone_id_cached(DomainAt(di))
    /\ zone_id_found(DomainAt(di))
    /\ Go(At("list", di, 1))
    /\ UNCHANGED <<healthy, todo, records>>
    /\ UNCHANGED <<prev, interrupted, exit_code>>

\* lines 112-114: warning, continue with the next domain
ResolveFail ==
    /\ pc = "resolve"
    /\ Fails
    /\ ~zone_id_cached(DomainAt(di))
    /\ zone_id_missing(DomainAt(di))
    /\ Go(NextDomain(di))
    /\ UNCHANGED <<healthy, todo, records>>
    /\ UNCHANGED <<prev, interrupted, exit_code>>

(***************************************************************************)
(* MonitoringService._sync_zone and DNSManager.sync_dns_records.           *)
(***************************************************************************)
\* get_dns_records returned: the calls of this sync are decided from the listing
ListOk ==
    /\ pc = "list"
    /\ Succeeds
    /\ LET existing_records == ProviderList(records, cache[DomainAt(di)], FullAt(di, zi))
           calls == sync_calls(ZoneAt(di, zi).ips, healthy, existing_records)
       IN  /\ log' = Append(log, Event("list", FullAt(di, zi), "", NoId, TRUE, existing_records))
           /\ todo' = calls
           /\ IF calls = <<>> THEN Go(NextZone(di, zi)) ELSE Go(At("act", di, zi))
    /\ UNCHANGED <<cache, healthy, records>>
    /\ UNCHANGED <<prev, interrupted, exit_code>>

\* a faulty variant: the loop starts the next cycle without waiting
ListFailTo_NoWait(d, z) == At("check", 1, 1)

\* a faulty variant: the loop does not catch the error and main() exits
ListFailTo_Fatal(d, z) == At("fatal", 1, 1)

\* get_dns_records raised (client.py lines 35-37): nothing catches it before
\* perform_health_check, which logs and re-raises; the loop catches it
ListFailTo(d, z) == At("retry_sleep", 1, 1)

ListFail ==
    /\ pc = "list"
    /\ Fails
    /\ log' = Append(log, Event("list", FullAt(di, zi), "", NoId, FALSE, <<>>))
    /\ todo' = <<>>
    /\ Go(ListFailTo(di, zi))
    /\ UNCHANGED <<cache, healthy, records>>
    /\ UNCHANGED <<prev, interrupted, exit_code>>

\* a faulty variant: the error of a failed call leaves sync_dns_records
AfterCall_Raise(ok, rest) ==
    IF ~ok THEN At("retry_sleep", 1, 1)
    ELSE IF rest = <<>> THEN NextZone(di, zi) ELSE At("act", di, zi)

\* where sync_dns_records goes on once a call returned (ok) or raised and was
\* caught by _add_record / _remove_record (not ok): the next call of the loops
AfterCall(ok, rest) == IF rest = <<>> THEN NextZone(di, zi) ELSE At("act", di, zi)

\* a faulty variant: a call that failed is issued again
Remaining_Retry(ok, calls) == IF ok THEN Tail(calls) ELSE calls

\* the calls sync_dns_records has still to issue once a call returned: the
\* loops at lines 62-63, 68-69, 73-74 and 80-81 go on to their next element
\* whatever _add_record / _remove_record returned
Remaining(ok, calls) == Tail(calls)

\* _add_record: create_dns_record succeeds (True) or raises, which is caught (False)
add_record(ok) ==
    /\ pc = "act"
    /\ IF ok THEN Succeeds ELSE Fails
    /\ todo[1].op = "create"
    /\ records' = IF ok THEN ProviderCreate(records, FullAt(di, zi), todo[1].ip) ELSE records
    /\ log' = Append(log, Event("create", FullAt(di, zi), todo[1].ip, NoId, ok, <<>>))
    /\ todo' = Remaining(ok, todo)
    /\ Go(AfterCall(ok, Remaining(ok, todo)))
    /\ UNCHANGED <<cache, healthy>>
    /\ UNCHANGED <<prev, interrupted, exit_code>>

\* _remove_record: delete_dns_record succeeds (True) or raises, which is caught (False)
remove_record(ok) ==
    /\ pc = "act"
    /\ IF ok THEN Succeeds ELSE Fails
    /\ todo[1].op = "delete"
    /\ records' = IF ok THEN ProviderDelete(records, cache[DomainAt(di)], todo[1].id) ELSE records
    /\ log' = Append(log, Event("delete", FullAt(di, zi), todo[1].ip, todo[1].id, ok, <<>>))
    /\ todo' = Remaining(ok, todo)
    /\ Go(AfterCall(ok, Remaining(ok, todo)))
    /\ UNCHANGED <<cache, healthy>>
    /\ UNCHANGED <<prev, interrupted, exit_code>>

AddOk == add_record(TRUE)
AddFail == add_record(FALSE)
RemoveOk == remove_record(TRUE)
RemoveFail == remove_record(FALSE)

(***************************************************************************)
(* DNSManager built with a notifier (notify_dns_changes and notify_errors  *)
(* are True by default).  main() builds it without one; the notifier is    *)
(* the TelegramNotifier of the telegram package, whose calls are made      *)
(* synchronously at lines 100-105, 109-114, 122-127 and 131-136.  Above,   *)
(* with or without a notifier, its calls return.                           *)
(***************************************************************************)
\* a call of notify_dns_change or notify_dns_error raises
NotifierRaises == Fails

\* _add_record when a notifier call raises.  notify_dns_change is called
\* inside the try, after the create succeeded (created): its exception is
\* caught at line 107, the failure is logged and False is returned unless
\* notify_dns_error, called inside the handler, raises too.  An exception of
\* notify_dns_error (escapes) is raised from the handler: it leaves
\* sync_dns_records and the cycle, like a failed listing
add_record_notified(created, escapes) ==
    /\ pc = "act"
    /\ todo[1].op = "create"
    /\ created \/ escapes
    /\ NotifierRaises
    /\ records' = IF created THEN ProviderCreate(records, FullAt(di, zi), todo[1].ip) ELSE records
    /\ log' = Append(log, [Event("create", FullAt(di, zi), todo[1].ip, NoId, created, <<>>)
                              EXCEPT !.counted = FALSE])
    /\ todo' = IF escapes THEN <<>> ELSE Tail(todo)
    /\ Go(IF escapes THEN At("retry_sleep", 1, 1) ELSE AfterCall(FALSE, Tail(todo)))
    /\ UNCHANGED <<cache, healthy, prev, interrupted, exit_code>>

\* _remove_record when a notifier call raises: the same shape, lines 119-137
remove_record_notified(deleted, escapes) ==
    /\ pc = "act"
    /\ todo[1].op = "delete"
    /\ deleted \/ escapes
    /\ NotifierRaises
    /\ records' = IF deleted THEN ProviderDelete(records, cache[DomainAt(di)], todo[1].id)
                  ELSE records
    /\ log' = Append(log, [Event("delete", FullAt(di, zi), todo[1].ip, todo[1].id, deleted, <<>>)
                              EXCEPT !.counted = FALSE])
    /\ todo' = IF escapes THEN <<>> ELSE Tail(todo)
    /\ Go(IF escapes THEN At("retry_sleep", 1, 1) ELSE AfterCall(FALSE, Tail(todo)))
    /\ UNCHANGED <<cache, healthy, prev, interrupted, exit_code>>

AddNotifyRaised == add_record_notified(TRUE, FALSE)
AddNotifyEscaped == \E created \in BOOLEAN : add_record_notified(created, TRUE)
RemoveNotifyRaised == remove_record_notified(TRUE, FALSE)
RemoveNotifyEscaped == \E deleted \in BOOLEAN : remove_record_notified(deleted, TRUE)

Notified == AddNotifyRaised \/ AddNotifyEscaped \/ RemoveNotifyRaised \/ RemoveNotifyEscaped

(***************************************************************************)
(* run_monitoring_loop and main() of __main__.py.                          *)
(***************************************************************************)
\* line 28: asyncio.sleep(interval) after a cycle that returned
Sleep ==
    /\ pc = "sleep"
    /\ UNCHANGED faults
    /\ Go(At("check", 1, 1))
    /\ prev' = [clean |-> \A i \in 1..Len(log) : log[i].ok, healthy |-> healthy]
    /\ UNCHANGED <<cache, healthy, todo, records, log, interrupted, exit_code>>

\* lines 36-39: the cycle raised; logged, asyncio.sleep(interval), next iteration
RetrySleep ==
    /\ pc = "retry_sleep"
    /\ UNCHANGED faults
    /\ Go(At("check", 1, 1))
    /\ prev' = NoCycle
    /\ UNCHANGED <<cache, healthy, todo, records, log, interrupted, exit_code>>

\* a faulty variant: a GracefulExit that the loop's own handler does not see
\* is taken for a fatal error
ShutdownExit_Fatal(at) ==
    IF at \in {"init_resolve", "init_list", "retry_sleep"}
    THEN FatalExit_code ELSE GracefulExit_code

\* the exit status once GracefulExit was raised while the task was at `at`.
\* Raised inside the try of run_monitoring_loop it is caught at lines 30-32
\* and main() returns; raised during the startup pass or during the sleep of
\* the loop's `except Exception` handler it is caught by main() at lines
\* 68-69; raised in the event loop while the task is suspended it leaves
\* asyncio.run as the SystemExit it is, whose code is GracefulExit.code
ShutdownExit(at) == GracefulExit_code

\* SIGTERM or SIGINT, at any time after lines 47-48: the handler
\* raise_graceful_exit raises GracefulExit in the main thread at once, whatever
\* the task is waiting for; the call in flight is abandoned, the calls that
\* sync_dns_records had still to issue are not issued and the process exits,
\* its memory (cache, snapshot, pending calls) gone; the provider keeps its
\* records
Shutdown ==
    /\ pc \notin {"stopped", "fatal"}
    /\ UNCHANGED faults
    /\ interrupted' = <<[at |-> pc, pending |-> Len(todo)]>>
    /\ exit_code' = <<ShutdownExit(pc)>>
    /\ pc' = "stopped"
    /\ di' = 1 /\ zi' = 1
    /\ cache' = EmptyCache
    /\ healthy' = {}
    /\ todo' = <<>>
    /\ log' = <<>>
    /\ prev' = NoCycle
    /\ UNCHANGED records

Startup == InitResolveOk \/ InitResolveFail \/ InitListOk \/ InitListFail

Cycle ==
    \/ CheckOk \/ CheckFail
    \/ ResolveCached \/ ResolveOk \/ ResolveFail
    \/ ListOk \/ ListFail
    \/ AddOk \/ AddFail \/ RemoveOk \/ RemoveFail

Loop == Sleep \/ RetrySleep

Next == Startup \/ Cycle \/ Loop \/ Shutdown

Spec == Init /\ [][Next]_vars

(***************************************************************************)
(* The program on a configuration in which a zone gives its ips as a plain *)
(* list of addresses instead of a map from address to weight.              *)
(***************************************************************************)
\* the zones of that configuration whose ips are a plain list: the last one
PlainZones == {full_domain("z3", "d2")}
\* the list such a zone gives: the addresses of `domains`, without weights
PlainIps(fd) == [i \in 1..Len(ConfigOf(fd)) |-> ConfigOf(fd)[i][1]]

\* sync_dns_records of a zone whose ips are a map, as above
ListWeighted == FullAt(di, zi) \notin PlainZones /\ ListOk

\* sync_dns_records of a zone whose ips are a list: _sync_zone passes the list
\* on as it is (lines 131, 141); get_dns_records returns (line 37), then
\* configured_ips.keys() at line 47 raises AttributeError, which leaves the
\* cycle like any other exception.  The startup pass (', '.join) and
\* _get_all_configured_ips (set.update) work on a list as on a map
ListPlain ==
    /\ pc = "list"
    /\ FullAt(di, zi) \in PlainZones
    /\ Succeeds
    /\ log' = Append(log, Event("list", FullAt(di, zi), "", NoId, TRUE,
                                ProviderList(records, cache[DomainAt(di)], FullAt(di, zi))))
    /\ todo' = <<>>
    /\ Go(At("retry_sleep", 1, 1))
    /\ UNCHANGED <<cache, healthy, records, prev, interrupted, exit_code>>

PlainCycle ==
    \/ CheckOk \/ CheckFail
    \/ ResolveCached \/ ResolveOk \/ ResolveFail
    \/ ListWeighted \/ ListPlain \/ ListFail
    \/ AddOk \/ AddFail \/ RemoveOk \/ RemoveFail

PlainNext == Startup \/ PlainCycle \/ Loop \/ Shutdown
PlainSpec == Init /\ [][PlainNext]_vars

\* the program for as long as no shutdown signal arrives
RunNext == Startup \/ Cycle \/ Loop
RunSpec == Init /\ [][RunNext]_vars

\* the program, observed together with the snapshots of its health source
SnapCycle ==
    \/ CheckObserved \/ CheckFail
    \/ ResolveCached \/ ResolveOk \/ ResolveFail
    \/ ListOk \/ ListFail
    \/ AddOk \/ AddFail \/ RemoveOk \/ RemoveFail

SnapNext == Startup \/ SnapCycle \/ Loop \/ Shutdown
SnapSpec == Init /\ [][SnapNext]_vars

\* the program with DNSManager(cloudflare_client, notifier)
NotifyNext == Next \/ Notified
NotifySpec == Init /\ [][NotifyNext]_vars

\* the run that starts on an account without records; the event loop runs the
\* task whenever it can run, signals are not owed
LiveInit == Init /\ TotalRecords(records) = 0
LiveSpec == LiveInit /\ [][Next]_vars /\ WF_vars(Startup \/ Cycle \/ Loop)


(***************************************************************************)
(* Reading the log of the running cycle.                                   *)
(***************************************************************************)
Max(a, b) == IF a >= b THEN a ELSE b

\* the log is that of a cycle whose health snapshot succeeded
CycleLog == log # <<>> /\ log[1].op = "snapshot" /\ log[1].ok
\* the log is that of a cycle whose health snapshot failed
FailedSnapshot == log # <<>> /\ log[1].op = "snapshot" /\ ~log[1].ok
\* perform_health_check has returned or raised and the loop is waiting
CycleOver == pc \in {"sleep", "retry_sleep"}


IsMutation(e) == e.op \in {"create", "delete"}
AllOk == \A i \in 1..Len(log) : log[i].ok

ListedOk(fd) ==
    CycleLog /\ \E i \in 1..Len(log) : log[i].op = "list" /\ log[i].name = fd /\ log[i].ok
Listing(fd) ==
    log[CHOOSE i \in 1..Len(log) : log[i].op = "list" /\ log[i].name = fd /\ log[i].ok].recs
\* the sync of fd has listed and has issued all its calls
SyncDone(fd) == ListedOk(fd) /\ ~(todo # <<>> /\ FullAt(di, zi) = fd)

ListedCount(fd, x) == existing_counts(Listing(fd), x)
ListedIds(fd, x) == {r.id : r \in Range(existing_by_ip(Listing(fd), x))}
Creates(fd, x) ==
    Len(SelectSeq(log, LAMBDA e : e.op = "create" /\ e.name = fd /\ e.ip = x))
DeletesOf(fd, id) ==
    Len(SelectSeq(log, LAMBDA e : e.op = "delete" /\ e.name = fd /\ e.id = id))
Deletes(fd, x) ==
    Len(SelectSeq(log, LAMBDA e : e.op = "delete" /\ e.name = fd /\ e.id \in ListedIds(fd, x)))
Mutations(fd) == SelectSeq(log, LAMBDA e : IsMutation(e) /\ e.name = fd)

\* the weight invariant of one zone on a record list
WeightInvariant(fd, healthy_ips, recs) ==
    \A x \in Addresses \cup Keys(ConfigOf(fd)) :
        existing_counts(recs, x) =
            IF x \in Keys(ConfigOf(fd)) /\ x \in healthy_ips
            THEN Weight(ConfigOf(fd), x) ELSE 0

(***************************************************************************)
(* C1.  After a cycle in which the snapshot, every zone resolution, every  *)
(* listing and every create/delete call succeeded, every zone holds        *)
(* exactly weight records for each healthy configured address and no       *)
(* record for any other address.                                           *)
(***************************************************************************)
C1_WeightInvariantAfterCycle ==
    (pc = "sleep" /\ CycleLog /\ AllOk) =>
        \A fd \in FullDomains : WeightInvariant(fd, healthy, records[fd])

\* an error-free cycle that had to create and to delete
C1_Witness ==
    /\ pc = "sleep" /\ CycleLog /\ AllOk
    /\ \E i, j \in 1..Len(log) : log[i].op = "create" /\ log[j].op = "delete"
    /\ healthy = {"a", "b"}

(***************************************************************************)
(* C2.  A cycle whose health snapshot fails issues no other call (no       *)
(* listing, create or delete, for any zone) and leaves the provider's      *)
(* records as they were.                                                   *)
(***************************************************************************)
C2_FailedSnapshotNoDnsWork ==
    /\ [](FailedSnapshot => Len(log) = 1 /\ pc \in {"retry_sleep", "check", "stopped"})
    /\ [][FailedSnapshot' => records' = records /\ todo' = todo]_vars

C2_Witness == FailedSnapshot /\ pc = "retry_sleep" /\ TotalRecords(records) > 0

(***************************************************************************)
(* C3.  Weight correctness: for a healthy address x configured with weight *)
(* w and listed c times, a sync issues max(0, w-c) creates for x and       *)
(* max(0, c-w) deletes of records of x when it is done, never more on the  *)
(* way, and never both a create and a delete for x.                        *)
(***************************************************************************)
C3_WeightCorrectness ==
    \A fd \in FullDomains : ListedOk(fd) =>
        \A x \in Keys(ConfigOf(fd)) \cap healthy :
            LET w == Weight(ConfigOf(fd), x)
                c == ListedCount(fd, x)
            IN  /\ Creates(fd, x) <= Max(0, w - c)
                /\ Deletes(fd, x) <= Max(0, c - w)
                /\ ~(Creates(fd, x) > 0 /\ Deletes(fd, x) > 0)
                /\ SyncDone(fd) => /\ Creates(fd, x) = Max(0, w - c)
                                   /\ Deletes(fd, x) = Max(0, c - w)

\* one cycle trimmed an over-represented address and filled up another zone
C3_Witness ==
    /\ CycleOver
    /\ \E fd \in FullDomains : \E x \in Keys(ConfigOf(fd)) \cap healthy :
          SyncDone(fd) /\ ListedCount(fd, x) > Weight(ConfigOf(fd), x) /\ Deletes(fd, x) > 0
    /\ \E fd \in FullDomains : \E x \in Keys(ConfigOf(fd)) \cap healthy :
          SyncDone(fd) /\ ListedCount(fd, x) < Weight(ConfigOf(fd), x) /\ Creates(fd, x) > 0

(***************************************************************************)
(* C4.  Unhealthy purge: for a configured address x that is not healthy, a *)
(* sync issues one delete for every listed record of x and no create for   *)
(* x, whatever its weight.                                                 *)
(***************************************************************************)
C4_UnhealthyPurge ==
    \A fd \in FullDomains : ListedOk(fd) =>
        \A x \in Keys(ConfigOf(fd)) \ healthy :
            /\ Creates(fd, x) = 0
            /\ SyncDone(fd) => \A id \in ListedIds(fd, x) : DeletesOf(fd, id) = 1

\* an unhealthy address listed as often as its weight asks for was purged
C4_Witness ==
    \E fd \in FullDomains : \E x \in Keys(ConfigOf(fd)) \ healthy :
        /\ SyncDone(fd)
        /\ ListedCount(fd, x) = Weight(ConfigOf(fd), x)
        /\ ListedCount(fd, x) > 1

(***************************************************************************)
(* C5.  Unconfigured purge: for an address x listed under a zone that does *)
(* not configure it, a sync issues a delete for every listed record of x,  *)
(* whether x is healthy or not.                                            *)
(***************************************************************************)
C5_UnconfiguredPurge ==
    \A fd \in FullDomains : SyncDone(fd) =>
        \A x \in Addresses \ Keys(ConfigOf(fd)) :
            \A id \in ListedIds(fd, x) : DeletesOf(fd, id) = 1

\* a healthy address was purged from a zone that does not configure it
C5_Witness ==
    \E fd \in FullDomains : \E x \in (Addresses \ Keys(ConfigOf(fd))) \cap healthy :
        SyncDone(fd) /\ ListedCount(fd, x) > 0


(***************************************************************************)
(* C6.  Convergence and idempotence: when every call of a sync succeeded,  *)
(* the zone's records satisfy the weight invariant and a sync of them with *)
(* the same map and healthy set has no call to issue; and a sync whose     *)
(* listing already satisfies the weight invariant issues no call.          *)
(***************************************************************************)
C6_Convergence ==
    \A fd \in FullDomains :
        /\ (SyncDone(fd) /\ \A e \in Range(Mutations(fd)) : e.ok) =>
              /\ WeightInvariant(fd, healthy, records[fd])
              /\ sync_calls(ConfigOf(fd), healthy, records[fd]) = <<>>
        /\ (ListedOk(fd) /\ WeightInvariant(fd, healthy, Listing(fd))) =>
              Mutations(fd) = <<>>

\* a sync that had to create or delete, every call of which succeeded, and in
\* the same cycle a sync that found its zone converged
C6_Witness ==
    /\ \E fd \in FullDomains :
          SyncDone(fd) /\ Len(Mutations(fd)) > 1 /\ \A e \in Range(Mutations(fd)) : e.ok
    /\ \E fd \in FullDomains :
          SyncDone(fd) /\ Listing(fd) # <<>> /\ WeightInvariant(fd, healthy, Listing(fd))

(***************************************************************************)
(* C7.  Zone isolation: when a cycle is over, every zone of every domain   *)
(* whose zone id is known has been listed in that cycle, also when the     *)
(* listing of another zone failed.                                         *)
(***************************************************************************)
C7_ZoneIsolation ==
    (CycleOver /\ CycleLog) =>
        \A p \in Positions : DomainAt(p[1]) \in DOMAIN cache =>
            \E i \in 1..Len(log) : log[i].op = "list" /\ log[i].name = FullAt(p[1], p[2])

CallOf(e) == [op |-> e.op, ip |-> e.ip, id |-> e.id]

(***************************************************************************)
(* C8.  Per-action failure isolation: a finished sync has issued every     *)
(* call decided from its listing, in order, whichever of them failed; a    *)
(* cycle raises only on a failed listing, never on a failed create or      *)
(* delete; and a cycle that returned has synced every zone of every        *)
(* domain it resolved.                                                     *)
(***************************************************************************)
C8_ActionFailureIsolation ==
    /\ \A fd \in FullDomains : SyncDone(fd) =>
          [i \in 1..Len(Mutations(fd)) |-> CallOf(Mutations(fd)[i])]
              = sync_calls(ConfigOf(fd), healthy, Listing(fd))
    /\ (pc = "retry_sleep" /\ CycleLog) =>
          (log[Len(log)].op = "list" /\ ~log[Len(log)].ok)
    /\ (CycleLog /\ IsMutation(log[Len(log)]) /\ ~log[Len(log)].ok) =>
          pc \in {"act", "list", "resolve", "sleep", "check", "stopped"}
    /\ (pc = "sleep" /\ CycleLog) =>
          \A p \in Positions : DomainAt(p[1]) \in DOMAIN cache => SyncDone(FullAt(p[1], p[2]))

\* a cycle returned although a call failed; the same sync went on with its
\* next call and a later zone was listed
C8_Witness ==
    /\ pc = "sleep" /\ CycleLog
    /\ \E i, j, k \in 1..Len(log) :
          /\ i < j /\ j < k
          /\ IsMutation(log[i]) /\ ~log[i].ok
          /\ IsMutation(log[j]) /\ log[j].name = log[i].name
          /\ log[k].op = "list" /\ log[k].name # log[i].name

FailedResolve(d) ==
    \E i \in 1..Len(log) : log[i].op = "resolve" /\ log[i].name[2] = DomainAt(d) /\ ~log[i].ok
Attempted(d) ==
    \E i \in 1..Len(log) : log[i].op \in {"resolve", "list"} /\ log[i].name[2] = DomainAt(d)
\* _sync_all_zones has gone past domain d
Passed(d) == pc = "sleep" \/ \E e \in 1..Len(domains) : e > d /\ Attempted(e)

(***************************************************************************)
(* C9.  A failed zone resolution is contained: in the cycle it happens in, *)
(* no listing, create or delete is issued for the zones of that domain,    *)
(* the cache gets no entry for it and the next domain is still processed;  *)
(* and a domain is only ever skipped after the provider was asked in that  *)
(* very cycle, so the resolution is attempted again in the next one.       *)
(***************************************************************************)
C9_ResolutionFailureContained ==
    CycleLog => \A d \in 1..Len(domains) :
        /\ FailedResolve(d) =>
              /\ \A i \in 1..Len(log) :
                    log[i].name[2] = DomainAt(d) => log[i].op = "resolve"
              /\ DomainAt(d) \notin DOMAIN cache
              /\ (CycleOver /\ d < Len(domains)) => Attempted(d + 1)
        /\ (Passed(d) /\ DomainAt(d) \notin DOMAIN cache) => FailedResolve(d)
        /\ \A dom \in DOMAIN cache : cache[dom] = ProviderZoneId(dom)

\* the first domain failed to resolve and the second was reconciled
C9_Witness ==
    /\ CycleLog /\ pc = "sleep"
    /\ FailedResolve(1)
    /\ \E fd \in FullDomains : fd[2] = DomainAt(2) /\ SyncDone(fd) /\ Mutations(fd) # <<>>

LoopPcs == {"check", "resolve", "list", "act", "sleep", "retry_sleep"}
Raised == log' # <<>> /\ log' # log /\ log'[Len(log')].op \in {"snapshot", "list"} /\ ~log'[Len(log')].ok

(***************************************************************************)
(* C10.  The loop survives a failed cycle: once in the loop the program    *)
(* is in a cycle or in a sleep until it is shut down; a cycle that raises  *)
(* goes to the retry sleep; and, unless the program is shut down, the      *)
(* retry sleep is followed by the start of another cycle.                  *)
(***************************************************************************)
C10_LoopSurvives ==
    /\ [][(pc \in LoopPcs) => (pc' \in LoopPcs \/ pc' = "stopped")]_vars
    /\ [][(pc \in LoopPcs /\ Raised) => pc' = "retry_sleep"]_vars
    /\ [][(pc = "retry_sleep") => (pc' = "check" \/ pc' = "stopped")]_vars
    /\ (pc = "retry_sleep") ~> (pc = "check" \/ pc = "stopped")

\* a new cycle is about to start after a cycle that a failed listing ended
C10_Witness ==
    /\ pc = "check" /\ CycleLog
    /\ log[Len(log)].op = "list" /\ ~log[Len(log)].ok

(***************************************************************************)
(* C11.  Shutdown is observed only between cycles: a process that a        *)
(* shutdown signal stopped was waiting in the interval sleep or the retry  *)
(* sleep when the signal took effect (or had not entered the loop yet),    *)
(* and sync_dns_records had no call left to issue.                         *)
(***************************************************************************)
C11_ShutdownBetweenCycles ==
    pc = "stopped" =>
        /\ interrupted[1].at \in {"init_resolve", "init_list", "sleep", "retry_sleep"}
        /\ interrupted[1].pending = 0

(***************************************************************************)
(* C12.  Notifier emission never fails the reconciliation cycle: with a    *)
(* notifier attached, a create or delete is counted as succeeded exactly   *)
(* when it succeeded at the provider, whatever the notifier does, and a    *)
(* cycle raises only on a failed listing, never on a notifier call.        *)
(***************************************************************************)
C12_NotifierNeverFailsCycle ==
    CycleLog =>
        /\ \A i \in 1..Len(log) : IsMutation(log[i]) => log[i].counted = log[i].ok
        /\ pc = "retry_sleep" => (log[Len(log)].op = "list" /\ ~log[Len(log)].ok)

(***************************************************************************)
(* C13.  Recoverable errors never crash the process: unless a shutdown     *)
(* signal arrives, the program never exits once the configuration has      *)
(* loaded, whichever provider call fails, a listing of the startup pass    *)
(* included.                                                               *)
(***************************************************************************)
C13_ProviderErrorNeverCrashes ==
    /\ pc # "fatal"
    /\ exit_code # <<>> => interrupted # <<>>

(***************************************************************************)
(* C14.  Plain IP lists default to weight 1: when a cycle is over in which *)
(* every call to the health source and the provider succeeded, a zone      *)
(* configured with a plain list holds exactly one record for every healthy *)
(* listed address and none for any other address.                          *)
(***************************************************************************)
C14_PlainListWeightOne ==
    (CycleOver /\ CycleLog /\ AllOk) =>
        \A fd \in PlainZones : \A x \in Addresses :
            existing_counts(records[fd], x) =
                IF x \in Range(PlainIps(fd)) /\ x \in healthy THEN 1 ELSE 0

(***************************************************************************)
(* C15.  Graceful shutdown exits with code 0: a process that a shutdown    *)
(* signal stopped, whatever it was doing when the signal arrived (startup  *)
(* pass, cycle, interval sleep, retry sleep), has exit status 0; and the   *)
(* status is set when the process stops, not before.                       *)
(***************************************************************************)
C15_GracefulExitCodeZero ==
    /\ interrupted # <<>> => (pc = "stopped" /\ exit_code = <<0>>)
    /\ pc = "stopped" => interrupted # <<>>
    /\ exit_code # <<>> <=> pc \in {"stopped", "fatal"}

\* a signal stopped the process during the retry sleep after failed calls
C15_Witness ==
    /\ pc = "stopped"
    /\ interrupted[1].at = "retry_sleep"
    /\ faults > 0

\* no create or delete of the running cycle has changed the records of fd yet
Untouched(fd) == \A e \in Range(Mutations(fd)) : ~e.ok

(***************************************************************************)
(* C16.  Eventual convergence after transient failures: whatever records   *)
(* the provider held and whatever failed before, a cycle that returns with *)
(* every call successful leaves every zone satisfying the weight           *)
(* invariant; the cycle after it, when its snapshot gives the same healthy *)
(* set, issues no create or delete; and a sync decides from the records    *)
(* the provider holds when it lists them.  (While the task waits for the   *)
(* snapshot, the log is still that of the cycle before.)                   *)
(***************************************************************************)
C16_EventualConvergence ==
    /\ (pc = "sleep" /\ CycleLog /\ AllOk /\ faults > 0) =>
          \A fd \in FullDomains : WeightInvariant(fd, healthy, records[fd])
    /\ (pc # "check" /\ CycleLog /\ prev.clean /\ prev.healthy = healthy) =>
          \A i \in 1..Len(log) : ~IsMutation(log[i])
    /\ \A fd \in FullDomains : (ListedOk(fd) /\ Untouched(fd)) => Listing(fd) = records[fd]

\* after a failed call, an error-free cycle that had to create or delete, and
\* then a whole cycle on the same healthy set that issued nothing
C16_Witness ==
    /\ pc = "sleep" /\ CycleLog /\ AllOk
    /\ faults > 0
    /\ prev.clean /\ prev.healthy = healthy
    /\ healthy # {}
    /\ TotalRecords(records) > MaxRecords

\* the domain the last call of the log asked the provider to resolve
Resolving == log'[Len(log')].name[2]
\* this step asked the provider to resolve a domain
AsksProvider == Len(log') = Len(log) + 1 /\ log'[Len(log')].op = "resolve"

(***************************************************************************)
(* C17.  Zone-id cache discipline: the cache maps a domain only to the     *)
(* zone id the provider holds for it; while the process runs an entry is   *)
(* never changed or removed; the cache changes only by a resolution that   *)
(* succeeded, which adds the entry of the domain it asked for; a failed    *)
(* resolution leaves the cache as it is; and the provider is never asked   *)
(* to resolve a domain that has an entry.                                  *)
(***************************************************************************)
C17_ZoneCacheDiscipline ==
    /\ [](\A d \in DOMAIN cache : cache[d] = ProviderZoneId(d))
    /\ [][(pc' # "stopped") =>
             \A d \in DOMAIN cache : d \in DOMAIN cache' /\ cache'[d] = cache[d]]_vars
    /\ [][(pc' # "stopped" /\ cache' # cache) =>
             /\ AsksProvider /\ log'[Len(log')].ok
             /\ DOMAIN cache' = DOMAIN cache \cup {Resolving}]_vars
    /\ [][AsksProvider =>
             /\ Resolving \notin DOMAIN cache
             /\ ~log'[Len(log')].ok => cache' = cache]_vars

\* in a cycle, a domain is read from the cache and the other one, which the
\* startup pass failed to resolve, has just failed to resolve again
C17_Witness ==
    /\ CycleLog
    /\ DOMAIN cache = {DomainAt(1)}
    /\ \E i \in 1..Len(log) : log[i].op = "list" /\ log[i].name[2] = DomainAt(1)
    /\ \A i \in 1..Len(log) : log[i].op = "resolve" => log[i].name[2] # DomainAt(1)
    /\ FailedResolve(2)

\* the ids of the delete calls logged for address x of fd, in the order issued
DeletedIds(fd, x) ==
    LET calls == SelectSeq(log, LAMBDA e : e.op = "delete" /\ e.name = fd /\ e.ip = x)
    IN  [i \in 1..Len(calls) |-> calls[i].id]
\* the ids of the first n records of address x in the listing of fd
FirstIds(fd, x, n) == [i \in 1..n |-> existing_by_ip(Listing(fd), x)[i].id]

(***************************************************************************)
(* C18.  Deterministic trimming: for a healthy configured address listed c *)
(* times with weight w < c, the deletes a sync issues for it are, in       *)
(* order, the first c-w of its records in listing order (a prefix of them  *)
(* while the sync is running); the last w are never asked to be deleted    *)
(* and are still held by the provider.                                     *)
(***************************************************************************)
C18_DeterministicTrimming ==
    \A fd \in FullDomains : ListedOk(fd) =>
        \A x \in Keys(ConfigOf(fd)) \cap healthy :
            LET w == Weight(ConfigOf(fd), x)
                c == ListedCount(fd, x)
                n == Len(DeletedIds(fd, x))
                group == existing_by_ip(Listing(fd), x)
            IN  c > w =>
                  /\ n <= c - w
                  /\ DeletedIds(fd, x) = FirstIds(fd, x, n)
                  /\ SyncDone(fd) => n = c - w
                  /\ \A i \in (c - w + 1)..c : group[i] \in Range(records[fd])

\* a sync trimmed an address: the first listed record is gone, the last is kept
C18_Witness ==
    \E fd \in FullDomains : \E x \in Keys(ConfigOf(fd)) \cap healthy :
        /\ SyncDone(fd)
        /\ ListedCount(fd, x) > Weight(ConfigOf(fd), x)
        /\ FirstIds(fd, x, 1)[1] \notin {r.id : r \in Range(records[fd])}
        /\ existing_counts(records[fd], x) = Weight(ConfigOf(fd), x)

StartupPcs == {"init_resolve", "init_list"}
\* the startup pass is over and the first cycle has not taken its snapshot
StartupOver == pc = "check" /\ ~CycleLog /\ ~FailedSnapshot
\* the domains the pass of the log resolved
Resolved == {log[i].name[2] : i \in {j \in 1..Len(log) : log[j].op = "resolve" /\ log[j].ok}}

(***************************************************************************)
(* C19.  The startup pass mutates nothing at the provider: every step      *)
(* taken during the pass leaves the provider's records as they are; the    *)
(* pass issues only zone resolutions and listings; and when it is over the *)
(* program's state differs from the initial one only by the cache, which   *)
(* holds the domains the pass resolved, and the provider still holds the   *)
(* records the pass listed.                                                *)
(***************************************************************************)
C19_StartupPassReadOnly ==
    /\ [][(pc \in StartupPcs) => records' = records]_vars
    /\ [](pc \in StartupPcs \/ StartupOver =>
            /\ \A i \in 1..Len(log) : log[i].op \in {"resolve", "list"}
            /\ healthy = {} /\ todo = <<>> /\ prev = NoCycle
            /\ DOMAIN cache = Resolved)
    /\ [](pc \in StartupPcs \/ StartupOver =>
            \A i \in 1..Len(log) :
                (log[i].op = "list" /\ log[i].ok) => log[i].recs = records[log[i].name])

\* the pass resolved both domains and listed the records the account holds
C19_Witness ==
    /\ StartupOver
    /\ DOMAIN cache = {DomainAt(d) : d \in 1..Len(domains)}
    /\ TotalRecords(records) = MaxRecords
    /\ \E i, j \in 1..Len(log) :
          /\ log[i].op = "list" /\ log[j].op = "list"
          /\ log[i].recs # <<>> /\ log[j].recs # <<>> /\ i # j

CyclePcs == {"check", "resolve", "list", "act"}
WaitPcs == {"sleep", "retry_sleep"}

(***************************************************************************)
(* C20.  Cycle ordering: the startup pass is followed by the first cycle   *)
(* with no wait in between; a cycle starts only out of the startup pass or *)
(* out of a wait, so that a cycle never starts while another is running    *)
(* and never right after one with no wait; a cycle ends, returning or      *)
(* raising, in a wait; and a wait is followed by the start of a cycle,     *)
(* never by a second wait.                                                 *)
(***************************************************************************)
C20_CycleOrdering ==
    /\ [][(pc \in StartupPcs) => (pc' \in StartupPcs \cup {"check", "fatal", "stopped"})]_vars
    /\ [][(pc' = "check" /\ pc # "check") => (pc \in StartupPcs \cup WaitPcs)]_vars
    /\ [][(pc \in CyclePcs) => (pc' \in (CyclePcs \ {"check"}) \cup WaitPcs \cup {"stopped"})]_vars
    /\ [][(pc \in WaitPcs) => (pc' \in {"check", "stopped"})]_vars

\* a cycle that follows the retry sleep of a failed one is under way, after a
\* first cycle that followed the startup pass
C20_Witness ==
    /\ pc = "act" /\ CycleLog
    /\ faults > 0 /\ ~prev.clean
    /\ \A i \in 1..Len(log) : log[i].ok

\* the addresses the snapshot of the running cycle reported healthy
Reported == log[1].nodes
\* the zone whose sync call i of the log belongs to: the last one listed before it
ZoneOfCall(i) ==
    log[CHOOSE j \in 1..(i - 1) :
            /\ log[j].op = "list"
            /\ \A k \in (j + 1)..(i - 1) : log[k].op # "list"].name

(***************************************************************************)
(* C21.  No record is ever published for an unhealthy or unconfigured      *)
(* address: every create call of a cycle, whether it succeeded or failed   *)
(* and whatever failed before it, is issued under the name of the zone     *)
(* being synced, for an address that is a key of that zone's map and that  *)
(* the snapshot of the same cycle reported healthy; and every record the   *)
(* provider holds under a zone beyond those the sync listed has such an    *)
(* address.                                                                *)
(***************************************************************************)
C21_CreatesOnlyHealthyConfigured ==
    CycleLog =>
        /\ \A i \in 1..Len(log) : log[i].op = "create" =>
              /\ \E j \in 1..(i - 1) : log[j].op = "list" /\ log[j].ok
              /\ log[i].name = ZoneOfCall(i)
              /\ log[i].ip \in Keys(ConfigOf(log[i].name))
              /\ log[i].ip \in Reported
        /\ \A fd \in FullDomains : ListedOk(fd) =>
              \A r \in Range(records[fd]) :
                  r \notin Range(Listing(fd)) =>
                      r.content \in Keys(ConfigOf(fd)) \cap Reported

\* creates went out for one address while the other configured address was
\* not reported healthy, a node outside the configuration was, and a call of
\* the cycle had failed
C21_Witness ==
    /\ CycleLog
    /\ Reported = {"a", "x"}
    /\ \E i, j \in 1..Len(log) :
          /\ i < j
          /\ IsMutation(log[i]) /\ ~log[i].ok
          /\ log[j].op = "create" /\ log[j].ok

\* the calls decided from the listing of fd
Decided(fd) == sync_calls(ConfigOf(fd), healthy, Listing(fd))

(***************************************************************************)
(* C22.  Each action is attempted exactly once per sync: the calls logged  *)
(* for a zone are, call by call, the first of those decided from its       *)
(* listing, so that no failed call is issued again; every delete targets   *)
(* the id of a listed record; no id is asked to be deleted twice; and the  *)
(* creates for an address, failed ones included, never exceed its weight   *)
(* minus its listed count.                                                 *)
(***************************************************************************)
C22_EachActionOnce ==
    \A fd \in FullDomains : ListedOk(fd) =>
        LET issued == Mutations(fd)
            decided == Decided(fd)
            listed == {r.id : r \in Range(Listing(fd))}
        IN  /\ Len(issued) <= Len(decided)
            /\ \A i \in 1..Len(issued) : CallOf(issued[i]) = decided[i]
            /\ \A i \in 1..Len(issued) :
                  issued[i].op = "delete" =>
                      /\ issued[i].id \in listed
                      /\ \A j \in 1..Len(issued) :
                            (j # i /\ issued[j].op = "delete") => issued[j].id # issued[i].id
            /\ \A x \in Addresses :
                  Creates(fd, x) <= IF x \in Keys(ConfigOf(fd))
                                    THEN Max(0, Weight(ConfigOf(fd), x) - ListedCount(fd, x))
                                    ELSE 0

\* a sync issued every call it had decided, more than one, although one of
\* them failed
C22_Witness ==
    \E fd \in FullDomains :
        /\ SyncDone(fd)
        /\ Len(Mutations(fd)) > 1
        /\ \E e \in Range(Mutations(fd)) : ~e.ok
        /\ \E e \in Range(Mutations(fd)) : e.ok
        /\ Len(Mutations(fd)) = Len(Decided(fd))

(***************************************************************************)
(* C23.  An address missing from a successful snapshot is treated as       *)
(* unhealthy: in a cycle whose snapshot succeeded, a finished sync of a    *)
(* zone has asked once for the deletion of every listed record of every    *)
(* address the zone configures and the snapshot did not report healthy     *)
(* (also when the snapshot reported no node at all) and has issued no      *)
(* create for it; once every call of the sync succeeded the provider holds *)
(* no record of it; a cycle whose snapshot raised issues no call.          *)
(***************************************************************************)
C23_MissingMeansUnhealthy ==
    /\ CycleLog =>
          \A fd \in FullDomains : \A x \in Keys(ConfigOf(fd)) \ Reported :
              /\ ListedOk(fd) => Creates(fd, x) = 0
              /\ SyncDone(fd) =>
                    /\ \A id \in ListedIds(fd, x) : DeletesOf(fd, id) = 1
                    /\ (\A e \in Range(Mutations(fd)) : e.ok) =>
                          existing_counts(records[fd], x) = 0
    /\ FailedSnapshot => Len(log) = 1

\* a snapshot that reported no healthy node emptied two zones that held
\* records of addresses they configure
C23_Witness ==
    /\ CycleLog /\ pc = "sleep"
    /\ Reported = {}
    /\ \E fd, gd \in FullDomains :
          /\ fd # gd
          /\ SyncDone(fd) /\ SyncDone(gd)
          /\ \E x \in Keys(ConfigOf(fd)) : ListedCount(fd, x) > 0
          /\ \E x \in Keys(ConfigOf(gd)) : ListedCount(gd, x) > 0
          /\ records[fd] = <<>> /\ records[gd] = <<>>

====
